---- MODULE Spec2Model ----
(***************************************************************************)
(* State-machine model of the admin authentication / session mechanism of *)
(* the contact-form backend (src/server.js).                               *)
(*                                                                         *)
(* Conventions                                                             *)
(*  - Strings that the code measures or compares character by character    *)
(*    (passwords, form fields) are sequences of one-character strings; the *)
(*    empty sequence is the empty string, which JavaScript treats as       *)
(*    falsy, as it does undefined and null.                                *)
(*  - Session ids are the values of crypto.randomBytes(24): they are       *)
(*    numbered 1, 2, ... in the order createSession draws them (a draw     *)
(*    never repeats an earlier one); 0 is the empty string.                *)
(*  - A Cookie header is the sequence of its ';'-separated, trimmed        *)
(*    cookies, each cookie the sequence of its '='-separated pieces.       *)
(*  - Time is Date.now() in milliseconds, counted from process start; the  *)
(*    clock moves in steps of half a session lifetime.                     *)
(*  - Under Spec, SpecCredential and SpecSubmission requests are served    *)
(*    one at a time: an action is a whole handler, its datastore calls     *)
(*    included, and the outcome of each datastore call (answer or error)   *)
(*    is an input of the action. Under SpecAsync the handlers are split    *)
(*    at their awaits and requests overlap.                                *)
(***************************************************************************)
EXTENDS Integers, Sequences, FiniteSets, TLC

(* ------------------------------ bounds -------------------------------- *)
MaxHalfHours == 4
MaxTokens == 2
MaxSubs == 1
CredentialMaxHalfHours == 1
CredentialMaxTokens == 2
SubmissionMaxHalfHours == 1
SubmissionMaxSubs == 2
AsyncMaxHalfHours == 1
AsyncMaxTokens == 2
AsyncMaxInflight == 2

(* --------------------------- program constants ------------------------ *)
ADMIN_KEY == "dev-secret"
SESSION_TTL_MS == 1000 * 60 * 60
DefaultPassword ==
  << "5","7","d","3","e","1","6","0","e","7","b","0","0","6","b","0",
     "3","5","9","f","a","5","4","4","4","0","7","9","9","a","6","b" >>
MinPasswordLength == 6

(* ------------------------------ inputs -------------------------------- *)
HalfHour == SESSION_TTL_MS \div 2
PwEmpty == << >>
PwFive == << "s","e","c","r","e" >>
PwSix == << "s","e","c","r","e","t" >>
PwPanel == << "a","d","m","i","n","1","2","3","4" >>
Passwords == { PwEmpty, PwFive, PwSix, PwPanel, DefaultPassword }
Keys == { "", ADMIN_KEY, "wrong-key" }
Sids == 0 .. MaxTokens
CookieHeaders ==
  { << >> }
    \cup { << << "admin_sid", t >> >> : t \in Sids }
    \cup { << << "theme", 0 >>, << "admin_sid", 1 >> >>,
           << << "admin_sid", 2 >>, << "admin_sid", 1 >> >>,
           << << "admin_sid", 1, 1 >> >>,
           << << "admin_sid" >> >>,
           << << "admin_sidx", 1 >> >> }
Credentials ==
  { << "", h >> : h \in CookieHeaders }
    \cup { << k, h >> : k \in { ADMIN_KEY, "wrong-key" },
                        h \in { << >>, << << "admin_sid", 1 >> >> } }
GateCases ==
  { << "", << >> >>, << ADMIN_KEY, << >> >>, << "", << << "admin_sid", 1 >> >> >> }
SessionPasswords == { PwEmpty, PwFive, PwPanel }
SessionPasswordChanges == { << PwFive, PwSix >>, << PwPanel, PwPanel >> }
PasswordChanges ==
  { << PwEmpty, PwSix >>, << PwPanel, PwEmpty >>, << PwFive, PwEmpty >>,
    << PwFive, PwSix >>, << PwFive, PwFive >>, << PwPanel, PwFive >>,
    << PwPanel, PwSix >>, << PwSix, PwPanel >>, << PwSix, PwFive >>,
    << DefaultPassword, PwSix >>, << DefaultPassword, PwFive >> }
SubmissionIds == 1 .. (MaxSubs + 1)
Texts == { << >>, << " " >>, << " ", "A", " " >> }
MalformedId == 0
FormInputs ==
  { << << >>, << "a", "@", "b" >>, << >>, << >> >>,
    << << "A" >>, << >>, << >>, << >> >>,
    << << " " >>, << "a", "@", "b" >>, << >>, << >> >>,
    << << "A" >>, << " ", " " >>, << >>, << "h", "i" >> >>,
    << << "A" >>, << "a", "@", "b" >>, << >>, << >> >>,
    << << " ", "A", " " >>, << " ", "a", "@", "b" >>, << "C", " " >>, << " ", "h", "i" >> >> }
AsyncPasswords == { PwFive, PwPanel, PwSix }
AsyncPasswordChanges == { << PwFive, PwSix >>, << PwPanel, PwSix >>, << PwPanel, PwFive >> }
SubmissionCases == { << "", << >> >>, << ADMIN_KEY, << >> >> }

VARIABLES
  now,            \* Date.now()
  readyState,     \* mongoose.connection.readyState (1 = connected)
  SESSIONS,       \* the session Map: id -> [createdAt, expires]
  sidsDrawn,      \* how many session ids crypto.randomBytes has produced
  envPassword,    \* process.env.ADMIN_PANEL_PASSWORD (empty = unset)
  Admin,          \* the Admin collection: set of documents
  Submission,     \* the Submission collection: set of documents
  idsDrawn,       \* how many submission _ids have been generated
  lastUse,        \* history: when each session id was created or last let
                  \* through requireAdminAuth
  resp,           \* the last request served, with the response written to it
  inflight        \* the requests whose handler is suspended at an await

vars == << now, readyState, SESSIONS, sidsDrawn, envPassword, Admin, Submission,
           idsDrawn, lastUse, resp, inflight >>

EmptyMap == [ t \in {} |-> 0 ]

(* ----------------------------- session store -------------------------- *)
MapSet(m, k, v) == [ t \in DOMAIN m \cup {k} |-> IF t = k THEN v ELSE m[t] ]
MapDelete(m, k) == [ t \in DOMAIN m \ {k} |-> m[t] ]

createSessionId == sidsDrawn + 1

createSessionTwice ==
  MapSet(SESSIONS, createSessionId,
         [ createdAt |-> now, expires |-> now + 2 * SESSION_TTL_MS ])

createSession ==
  MapSet(SESSIONS, createSessionId, [ createdAt |-> now, expires |-> now + SESSION_TTL_MS ])

isSessionValidStrict(id) ==
  IF id = 0 THEN FALSE
  ELSE IF id \notin DOMAIN SESSIONS THEN FALSE
  ELSE IF now >= SESSIONS[id].expires THEN FALSE
  ELSE TRUE

isSessionValid(id) ==
  IF id = 0 THEN FALSE
  ELSE IF id \notin DOMAIN SESSIONS THEN FALSE
  ELSE IF now > SESSIONS[id].expires THEN FALSE
  ELSE TRUE

isSessionValidStoreSweep(id) ==
  IF id # 0 /\ id \in DOMAIN SESSIONS /\ now > SESSIONS[id].expires
  THEN [ t \in { u \in DOMAIN SESSIONS : now <= SESSIONS[u].expires } |-> SESSIONS[t] ]
  ELSE SESSIONS

isSessionValidStore(id) ==
  IF id # 0 /\ id \in DOMAIN SESSIONS /\ now > SESSIONS[id].expires
  THEN MapDelete(SESSIONS, id)
  ELSE SESSIONS

(* ------------------------------ auth gate ----------------------------- *)
IsSidCookie(c) == Len(c) >= 2 /\ c[1] = "admin_sid"
CookieMatch(header) ==
  IF \E i \in 1 .. Len(header) : IsSidCookie(header[i])
  THEN << header[CHOOSE i \in 1 .. Len(header) :
              /\ IsSidCookie(header[i])
              /\ \A j \in 1 .. (i - 1) : ~IsSidCookie(header[j])] >>
  ELSE << >>
CookieSid(header) == IF CookieMatch(header) = << >> THEN 0 ELSE CookieMatch(header)[1][2]

KeyMatches(key) == key # "" /\ key = ADMIN_KEY

requireAdminAuthAllowsAnyKey(key, header) ==
  IF key # "" THEN TRUE
  ELSE IF CookieMatch(header) = << >> THEN FALSE
  ELSE isSessionValid(CookieSid(header))

requireAdminAuthAllows(key, header) ==
  IF KeyMatches(key) THEN TRUE
  ELSE IF CookieMatch(header) = << >> THEN FALSE
  ELSE isSessionValid(CookieSid(header))

requireAdminAuthStoreCookieFirst(key, header) ==
  IF CookieMatch(header) = << >> THEN SESSIONS
  ELSE IF ~isSessionValid(CookieSid(header)) THEN isSessionValidStore(CookieSid(header))
  ELSE [ SESSIONS EXCEPT ![CookieSid(header)].expires = now + SESSION_TTL_MS ]

requireAdminAuthStoreHalfRefresh(key, header) ==
  IF KeyMatches(key) THEN SESSIONS
  ELSE IF CookieMatch(header) = << >> THEN SESSIONS
  ELSE IF ~isSessionValid(CookieSid(header)) THEN isSessionValidStore(CookieSid(header))
  ELSE [ SESSIONS EXCEPT ![CookieSid(header)].expires = now + HalfHour ]

requireAdminAuthStoreNoRefresh(key, header) ==
  IF KeyMatches(key) THEN SESSIONS
  ELSE IF CookieMatch(header) = << >> THEN SESSIONS
  ELSE IF ~isSessionValid(CookieSid(header)) THEN isSessionValidStore(CookieSid(header))
  ELSE SESSIONS

requireAdminAuthStoreRefreshFirst(key, header) ==
  IF KeyMatches(key) THEN SESSIONS
  ELSE IF CookieMatch(header) = << >> THEN SESSIONS
  ELSE IF CookieSid(header) \in DOMAIN SESSIONS
  THEN [ SESSIONS EXCEPT ![CookieSid(header)].expires = now + SESSION_TTL_MS ]
  ELSE SESSIONS

requireAdminAuthStore(key, header) ==
  IF KeyMatches(key) THEN SESSIONS
  ELSE IF CookieMatch(header) = << >> THEN SESSIONS
  ELSE IF ~isSessionValid(CookieSid(header)) THEN isSessionValidStore(CookieSid(header))
  ELSE [ SESSIONS EXCEPT ![CookieSid(header)].expires = now + SESSION_TTL_MS ]

requireAdminAuthUse(key, header) ==
  IF ~KeyMatches(key) /\ requireAdminAuthAllows(key, header)
  THEN [ lastUse EXCEPT ![CookieSid(header)] = now ]
  ELSE lastUse

Response(op, status, error, key, sid, password, newPassword, expected, persisted) ==
  [ op |-> op, status |-> status, error |-> error, key |-> key, sid |-> sid,
    password |-> password, newPassword |-> newPassword, expected |-> expected,
    persisted |-> persisted ]

Respond(op, status, error) ==
  resp' = Response(op, status, error, "", 0, PwEmpty, PwEmpty, PwEmpty, FALSE)

RespondGated(op, status, error, key, header) ==
  resp' = Response(op, status, error, key, CookieSid(header), PwEmpty, PwEmpty,
                   PwEmpty, FALSE)

\* responses that carry the fields of their own request
ContactResponse(status, error, name, email, saved, id) ==
  [ op |-> "contact", status |-> status, error |-> error, key |-> "", sid |-> 0,
    password |-> PwEmpty, newPassword |-> PwEmpty, expected |-> PwEmpty,
    persisted |-> FALSE, name |-> name, email |-> email, saved |-> saved, id |-> id ]

ListResponse(key, header, rows) ==
  [ op |-> "list", status |-> 200, error |-> "", key |-> key, sid |-> CookieSid(header),
    password |-> PwEmpty, newPassword |-> PwEmpty, expected |-> PwEmpty,
    persisted |-> FALSE, rows |-> rows ]

DeleteResponse(status, error, key, header, id, done) ==
  [ op |-> "delete", status |-> status, error |-> error, key |-> key,
    sid |-> CookieSid(header), password |-> PwEmpty, newPassword |-> PwEmpty,
    expected |-> PwEmpty, persisted |-> FALSE, id |-> id, done |-> done ]

Unauthorized(op, key, header) ==
  /\ ~requireAdminAuthAllows(key, header)
  /\ SESSIONS' = requireAdminAuthStore(key, header)
  /\ RespondGated(op, 401, "unauthorized", key, header)
  /\ UNCHANGED << inflight, now, readyState, sidsDrawn, envPassword, Admin, Submission,
                  idsDrawn, lastUse >>

(* ------------------------------ environment --------------------------- *)
Tick ==
  /\ now < MaxHalfHours * HalfHour
  /\ now' = now + HalfHour
  /\ UNCHANGED << inflight, readyState, SESSIONS, sidsDrawn, envPassword, Admin, Submission,
                  idsDrawn, lastUse, resp >>

Connect ==
  /\ readyState # 1
  /\ readyState' = 1
  /\ UNCHANGED << inflight, now, SESSIONS, sidsDrawn, envPassword, Admin, Submission,
                  idsDrawn, lastUse, resp >>

Disconnect ==
  /\ readyState = 1
  /\ readyState' = 0
  /\ UNCHANGED << inflight, now, SESSIONS, sidsDrawn, envPassword, Admin, Submission,
                  idsDrawn, lastUse, resp >>

(* ------------------------------ logout -------------------------------- *)
LogoutStoreKeeps(header) == SESSIONS

LogoutStore(header) ==
  IF CookieMatch(header) # << >>
     /\ CookieSid(header) # 0
     /\ CookieSid(header) \in DOMAIN SESSIONS
  THEN MapDelete(SESSIONS, CookieSid(header))
  ELSE SESSIONS

Logout(header) ==
  /\ SESSIONS' = LogoutStore(header)
  /\ resp' = Response("logout", 200, "", "", CookieSid(header), PwEmpty, PwEmpty,
                      PwEmpty, FALSE)
  /\ UNCHANGED << inflight, now, readyState, sidsDrawn, envPassword, Admin, Submission,
                  idsDrawn, lastUse >>

(* ------------------------------ submissions --------------------------- *)
RECURSIVE TrimStart(_)
TrimStart(s) == IF s # << >> /\ Head(s) = " " THEN TrimStart(Tail(s)) ELSE s
RECURSIVE TrimEnd(_)
TrimEnd(s) ==
  IF s # << >> /\ s[Len(s)] = " " THEN TrimEnd(SubSeq(s, 1, Len(s) - 1)) ELSE s
Trim(s) == TrimEnd(TrimStart(s))

\* saved: submission.save() resolves (FALSE: it rejects, on a validation
\* error of the schema or on a datastore error)
Contact(name, email, company, message, saved) ==
  /\ IF email = << >> \/ name = << >>
     THEN /\ resp' = ContactResponse(400, "name and email are required", name, email,
                                     FALSE, 0)
          /\ UNCHANGED << Submission, idsDrawn >>
     ELSE IF saved /\ readyState = 1
     THEN /\ idsDrawn < SubmissionMaxSubs
          /\ Submission' = Submission \cup
               { [ id |-> idsDrawn + 1,
                   name |-> Trim(name),
                   company |-> IF company # << >> THEN Trim(company) ELSE << >>,
                   email |-> Trim(email),
                   message |-> IF message # << >> THEN Trim(message) ELSE << >>,
                   createdAt |-> now ] }
          /\ idsDrawn' = idsDrawn + 1
          /\ resp' = ContactResponse(201, "", name, email, TRUE, idsDrawn + 1)
     ELSE /\ resp' = ContactResponse(500, "internal server error", name, email,
                                     FALSE, 0)
          /\ UNCHANGED << Submission, idsDrawn >>
  /\ UNCHANGED << inflight, now, readyState, SESSIONS, sidsDrawn, envPassword, Admin, lastUse >>

\* Submission.find().sort({ createdAt: -1 }): the documents, newest first
\* (documents of equal createdAt in any order)
SubmissionFindSortedAscending ==
  { q \in [ 1 .. Cardinality(Submission) -> Submission ] :
      /\ \A i, j \in DOMAIN q : i # j => q[i] # q[j]
      /\ \A i, j \in DOMAIN q : i < j => q[i].createdAt <= q[j].createdAt }

SubmissionFindSorted ==
  { q \in [ 1 .. Cardinality(Submission) -> Submission ] :
      /\ \A i, j \in DOMAIN q : i # j => q[i] # q[j]
      /\ \A i, j \in DOMAIN q : i < j => q[i].createdAt >= q[j].createdAt }

ListSubmissions(key, header, found) ==
  \/ Unauthorized("list", key, header)
  \/ /\ requireAdminAuthAllows(key, header)
     /\ SESSIONS' = requireAdminAuthStore(key, header)
     /\ lastUse' = requireAdminAuthUse(key, header)
     /\ IF readyState # 1
        THEN RespondGated("list", 503, "database not connected", key, header)
        ELSE IF found
        THEN \E rows \in SubmissionFindSorted :
                resp' = ListResponse(key, header, rows)
        ELSE RespondGated("list", 500, "database error", key, header)
     /\ UNCHANGED << inflight, now, readyState, sidsDrawn, envPassword, Admin, Submission,
                     idsDrawn >>

\* Submission.findByIdAndDelete(id) casts id to the ObjectId of _id and
\* rejects when it cannot
IsObjectId(id) == id # MalformedId

\* done: the findByIdAndDelete call answers (FALSE: it rejects on a datastore
\* error)
DeleteSubmission(key, header, id, done) ==
  \/ Unauthorized("delete", key, header)
  \/ /\ requireAdminAuthAllows(key, header)
     /\ SESSIONS' = requireAdminAuthStore(key, header)
     /\ lastUse' = requireAdminAuthUse(key, header)
     /\ IF ~(done /\ readyState = 1 /\ IsObjectId(id))
        THEN /\ resp' = DeleteResponse(500, "internal server error", key, header, id,
                                       done /\ readyState = 1)
             /\ UNCHANGED Submission
        ELSE IF \E d \in Submission : d.id = id
        THEN /\ Submission' = { d \in Submission : d.id # id }
             /\ resp' = DeleteResponse(200, "", key, header, id, TRUE)
        ELSE /\ resp' = DeleteResponse(404, "submission not found", key, header, id, TRUE)
             /\ UNCHANGED Submission
     /\ UNCHANGED << inflight, now, readyState, sidsDrawn, envPassword, Admin, idsDrawn >>

(* --------------------------- admin credential ------------------------- *)
AdminFindOne ==
  IF \E d \in Admin : d.key = "admin_settings"
  THEN (CHOOSE d \in Admin : d.key = "admin_settings").password
  ELSE << >>

AdminFindOneAndUpdate(newPassword) ==
  { d \in Admin : d.key # "admin_settings" }
    \cup { [ key |-> "admin_settings", password |-> newPassword ] }

Fallback == IF envPassword # << >> THEN envPassword ELSE DefaultPassword

getAdminPasswordAnyState(found) ==
  IF AdminFindOne # << >> THEN AdminFindOne ELSE Fallback

\* found: the findOne call, when made, answers (FALSE: it throws)
getAdminPassword(found) ==
  IF readyState = 1 /\ found /\ AdminFindOne # << >> THEN AdminFindOne ELSE Fallback

(* ------------------------------- verify ------------------------------- *)
VerifyMatchesAny(password, expected) == password # << >>

VerifyMatches(password, expected) == password # << >> /\ password = expected

Verify(password, found) ==
  /\ IF VerifyMatches(password, getAdminPassword(found))
     THEN /\ sidsDrawn < MaxTokens
          /\ SESSIONS' = createSession
          /\ sidsDrawn' = sidsDrawn + 1
          /\ lastUse' = MapSet(lastUse, createSessionId, now)
          /\ resp' = Response("verify", 200, "", "", createSessionId, password,
                              PwEmpty, getAdminPassword(found), FALSE)
     ELSE /\ resp' = Response("verify", 401, "unauthorized", "", 0, password,
                              PwEmpty, getAdminPassword(found), FALSE)
          /\ UNCHANGED << SESSIONS, sidsDrawn, lastUse >>
  /\ UNCHANGED << inflight, now, readyState, envPassword, Admin, Submission, idsDrawn >>

(* --------------------------- change-password -------------------------- *)
ChangePasswordStatusUnconfirmed(currentPassword, newPassword, expectedPassword) ==
  IF currentPassword = << >> \/ newPassword = << >> THEN 400
  ELSE IF Len(newPassword) < MinPasswordLength THEN 400
  ELSE 200

ClearSkipped(store) == store

Clear(store) == EmptyMap

ChangePasswordStatus(currentPassword, newPassword, expectedPassword) ==
  IF currentPassword = << >> \/ newPassword = << >> THEN 400
  ELSE IF currentPassword # expectedPassword THEN 401
  ELSE IF Len(newPassword) < MinPasswordLength THEN 400
  ELSE 200

ChangePasswordError(currentPassword, newPassword, expectedPassword) ==
  IF currentPassword = << >> \/ newPassword = << >>
  THEN "Current and new password required"
  ELSE IF currentPassword # expectedPassword THEN "Current password is incorrect"
  ELSE IF Len(newPassword) < MinPasswordLength
  THEN "New password must be at least 6 characters"
  ELSE ""

\* found: as in getAdminPassword; updated: the findOneAndUpdate call, when
\* made, succeeds (FALSE: it throws and the handler logs the error)
ChangePassword(key, header, currentPassword, newPassword, found, updated) ==
  \/ Unauthorized("change-password", key, header)
  \/ /\ requireAdminAuthAllows(key, header)
     /\ lastUse' = requireAdminAuthUse(key, header)
     /\ LET expectedPassword == getAdminPassword(found)
            status == ChangePasswordStatus(currentPassword, newPassword, expectedPassword)
            error == ChangePasswordError(currentPassword, newPassword, expectedPassword)
            persisted == readyState = 1 /\ updated
        IN  IF status # 200
            THEN /\ resp' = Response("change-password", status, error, key,
                                     CookieSid(header), currentPassword, newPassword,
                                     expectedPassword, FALSE)
                 /\ SESSIONS' = requireAdminAuthStore(key, header)
                 /\ UNCHANGED << envPassword, Admin >>
            ELSE /\ envPassword' = newPassword
                 /\ Admin' = IF persisted THEN AdminFindOneAndUpdate(newPassword)
                             ELSE Admin
                 /\ SESSIONS' = Clear(requireAdminAuthStore(key, header))
                 /\ resp' = Response("change-password", 200, "", key,
                                     CookieSid(header), currentPassword, newPassword,
                                     expectedPassword, persisted)
     /\ UNCHANGED << inflight, now, readyState, sidsDrawn, Submission, idsDrawn >>

(* --------------------------- access notification ---------------------- *)
AdminAccessRevokes(sent) ==
  /\ IF sent THEN Respond("admin-access", 200, "")
     ELSE Respond("admin-access", 500, "send failed")
  /\ SESSIONS' = IF sent THEN SESSIONS ELSE EmptyMap
  /\ UNCHANGED << inflight, now, readyState, sidsDrawn, envPassword, Admin,
                  Submission, idsDrawn, lastUse >>

\* sent: transporter.sendMail calls back without an error
AdminAccess(sent) ==
  /\ IF sent THEN Respond("admin-access", 200, "")
     ELSE Respond("admin-access", 500, "send failed")
  /\ UNCHANGED << inflight, now, readyState, SESSIONS, sidsDrawn, envPassword, Admin,
                  Submission, idsDrawn, lastUse >>

(* ------------------------------ the system ---------------------------- *)
Idle == Response("none", 0, "", "", 0, PwEmpty, PwEmpty, PwEmpty, FALSE)

Stored ==
  [ id |-> 1, name |-> << "A" >>, company |-> << >>, email |-> << "a", "@", "b" >>,
    message |-> << >>, createdAt |-> 0 ]

\* Spec: the session store over the whole span of the clock. The datastore is
\* connected and holds one submission from an earlier run; the panel password
\* is configured, and a password change keeps its value.
Init ==
  /\ now = 0
  /\ readyState = 1
  /\ SESSIONS = EmptyMap
  /\ sidsDrawn = 0
  /\ envPassword = PwPanel
  /\ Admin = {}
  /\ Submission = { Stored }
  /\ idsDrawn = 1
  /\ lastUse = EmptyMap
  /\ resp = Idle
  /\ inflight = {}

Next ==
  \/ Tick
  \/ \E h \in CookieHeaders : Logout(h)
  \/ \E c \in Credentials, found \in BOOLEAN : ListSubmissions(c[1], c[2], found)
  \/ \E c \in GateCases, id \in SubmissionIds, done \in BOOLEAN :
        DeleteSubmission(c[1], c[2], id, done)
  \/ \E p \in SessionPasswords, found \in BOOLEAN : Verify(p, found)
  \/ \E c \in GateCases, p \in SessionPasswordChanges, found \in BOOLEAN,
        updated \in BOOLEAN :
        ChangePassword(c[1], c[2], p[1], p[2], found, updated)

Spec == Init /\ [][Next]_vars

\* SpecCredential: the admin credential under every password input and every
\* datastore outcome, over a short span of the clock.
InitCredential ==
  /\ now = 0
  /\ readyState \in { 0, 1 }
  /\ SESSIONS = EmptyMap
  /\ sidsDrawn = 0
  /\ envPassword \in { PwEmpty, PwPanel }
  /\ Admin = {}
  /\ Submission = {}
  /\ idsDrawn = 0
  /\ lastUse = EmptyMap
  /\ resp = Idle
  /\ inflight = {}

NextCredential ==
  \/ now < CredentialMaxHalfHours * HalfHour /\ Tick
  \/ Connect
  \/ Disconnect
  \/ \E p \in Passwords, found \in BOOLEAN :
        sidsDrawn < CredentialMaxTokens /\ Verify(p, found)
  \/ \E c \in GateCases, p \in PasswordChanges, found \in BOOLEAN, updated \in BOOLEAN :
        ChangePassword(c[1], c[2], p[1], p[2], found, updated)

SpecCredential == InitCredential /\ [][NextCredential]_vars

(* ------------------- handlers suspended at an await ------------------ *)
\* A handler runs without interruption from one await to the next; the
\* requests below are split at their awaits, and other requests are served
\* in between. A datastore read takes its value when the call is made.
Pending(op, stage, key, sid, password, newPassword, expected) ==
  [ op |-> op, stage |-> stage, key |-> key, sid |-> sid, password |-> password,
    newPassword |-> newPassword, expected |-> expected ]

\* verify up to "await getAdminPassword()"
VerifyAwait(password, found) ==
  /\ Cardinality(inflight) < AsyncMaxInflight
  /\ Pending("verify", "lookup", "", 0, password, PwEmpty, getAdminPassword(found))
       \notin inflight
  /\ inflight' = inflight \cup
       { Pending("verify", "lookup", "", 0, password, PwEmpty, getAdminPassword(found)) }
  /\ UNCHANGED << now, readyState, SESSIONS, sidsDrawn, envPassword, Admin, Submission,
                  idsDrawn, lastUse, resp >>

\* verify from the await to its response
VerifyResume(r) ==
  /\ r \in inflight
  /\ r.op = "verify"
  /\ inflight' = inflight \ { r }
  /\ IF VerifyMatches(r.password, r.expected)
     THEN /\ sidsDrawn < AsyncMaxTokens
          /\ SESSIONS' = createSession
          /\ sidsDrawn' = sidsDrawn + 1
          /\ lastUse' = MapSet(lastUse, createSessionId, now)
          /\ resp' = Response("verify", 200, "", "", createSessionId, r.password,
                              PwEmpty, r.expected, FALSE)
     ELSE /\ resp' = Response("verify", 401, "unauthorized", "", 0, r.password,
                              PwEmpty, r.expected, FALSE)
          /\ UNCHANGED << SESSIONS, sidsDrawn, lastUse >>
  /\ UNCHANGED << now, readyState, envPassword, Admin, Submission, idsDrawn >>

\* list: requireAdminAuth and the handler up to "await Submission.find()"
ListAwait(key, header) ==
  \/ inflight' = inflight /\ Unauthorized("list", key, header)
  \/ /\ requireAdminAuthAllows(key, header)
     /\ SESSIONS' = requireAdminAuthStore(key, header)
     /\ lastUse' = requireAdminAuthUse(key, header)
     /\ IF readyState # 1
        THEN /\ RespondGated("list", 503, "database not connected", key, header)
             /\ inflight' = inflight
        ELSE /\ Cardinality(inflight) < AsyncMaxInflight
             /\ Pending("list", "find", key, CookieSid(header), PwEmpty, PwEmpty, PwEmpty)
                  \notin inflight
             /\ inflight' = inflight \cup
                  { Pending("list", "find", key, CookieSid(header), PwEmpty, PwEmpty,
                            PwEmpty) }
             /\ resp' = resp
     /\ UNCHANGED << now, readyState, sidsDrawn, envPassword, Admin, Submission,
                     idsDrawn >>

ListResumeTouches(r, found) ==
  /\ r \in inflight
  /\ r.op = "list"
  /\ inflight' = inflight \ { r }
  /\ resp' = Response("list", IF found THEN 200 ELSE 500,
                      IF found THEN "" ELSE "database error", r.key, r.sid, PwEmpty,
                      PwEmpty, PwEmpty, FALSE)
  /\ SESSIONS' = IF r.sid # 0 /\ ~KeyMatches(r.key)
                 THEN MapSet(SESSIONS, r.sid,
                             [ createdAt |-> now, expires |-> now + SESSION_TTL_MS ])
                 ELSE SESSIONS
  /\ UNCHANGED << now, readyState, sidsDrawn, envPassword, Admin, Submission,
                  idsDrawn, lastUse >>

\* list from the await to its response
ListResume(r, found) ==
  /\ r \in inflight
  /\ r.op = "list"
  /\ inflight' = inflight \ { r }
  /\ IF found
     THEN \E rows \in SubmissionFindSorted :
             resp' = [ ListResponse(r.key, << >>, rows) EXCEPT !.sid = r.sid ]
     ELSE resp' = Response("list", 500, "database error", r.key, r.sid, PwEmpty,
                           PwEmpty, PwEmpty, FALSE)
  /\ UNCHANGED << now, readyState, SESSIONS, sidsDrawn, envPassword, Admin, Submission,
                  idsDrawn, lastUse >>

\* change-password: requireAdminAuth and the handler up to
\* "await getAdminPassword()"
ChangePasswordAwait(key, header, currentPassword, newPassword, found) ==
  \/ inflight' = inflight /\ Unauthorized("change-password", key, header)
  \/ /\ requireAdminAuthAllows(key, header)
     /\ SESSIONS' = requireAdminAuthStore(key, header)
     /\ lastUse' = requireAdminAuthUse(key, header)
     /\ Cardinality(inflight) < AsyncMaxInflight
     /\ \A r \in inflight : r.op # "change-password"
     /\ inflight' = inflight \cup
          { Pending("change-password", "lookup", key, CookieSid(header),
                    currentPassword, newPassword, getAdminPassword(found)) }
     /\ UNCHANGED << now, readyState, sidsDrawn, envPassword, Admin, Submission,
                     idsDrawn, resp >>

\* change-password from the first await to the response or, when the
\* datastore is connected, to "await Admin.findOneAndUpdate()"
ChangePasswordResume(r) ==
  /\ r \in inflight
  /\ r.op = "change-password"
  /\ r.stage = "lookup"
  /\ LET status == ChangePasswordStatus(r.password, r.newPassword, r.expected)
         error == ChangePasswordError(r.password, r.newPassword, r.expected)
     IN  IF status # 200
         THEN /\ resp' = Response("change-password", status, error, r.key, r.sid,
                                  r.password, r.newPassword, r.expected, FALSE)
              /\ inflight' = inflight \ { r }
              /\ UNCHANGED << envPassword, SESSIONS >>
         ELSE /\ envPassword' = r.newPassword
              /\ IF readyState = 1
                 THEN /\ inflight' = (inflight \ { r }) \cup
                           { [ r EXCEPT !.stage = "upsert" ] }
                      /\ UNCHANGED << resp, SESSIONS >>
                 ELSE /\ inflight' = inflight \ { r }
                      /\ SESSIONS' = Clear(SESSIONS)
                      /\ resp' = Response("change-password", 200, "", r.key, r.sid,
                                          r.password, r.newPassword, r.expected, FALSE)
  /\ UNCHANGED << now, readyState, sidsDrawn, Admin, Submission, idsDrawn, lastUse >>

\* change-password from the second await to its response; updated: the
\* findOneAndUpdate call succeeded (FALSE: it threw and the error was logged)
ChangePasswordPersist(r, updated) ==
  /\ r \in inflight
  /\ r.op = "change-password"
  /\ r.stage = "upsert"
  /\ inflight' = inflight \ { r }
  /\ Admin' = IF updated THEN AdminFindOneAndUpdate(r.newPassword) ELSE Admin
  /\ SESSIONS' = Clear(SESSIONS)
  /\ resp' = Response("change-password", 200, "", r.key, r.sid, r.password,
                      r.newPassword, r.expected, updated)
  /\ UNCHANGED << now, readyState, sidsDrawn, envPassword, Submission, idsDrawn,
                  lastUse >>

\* SpecAsync: logins, list requests and password changes that overlap at
\* their awaits, with logout, on a connected datastore.
InitAsync ==
  /\ now = 0
  /\ readyState = 1
  /\ SESSIONS = EmptyMap
  /\ sidsDrawn = 0
  /\ envPassword = PwPanel
  /\ Admin = {}
  /\ Submission = { Stored }
  /\ idsDrawn = 1
  /\ lastUse = EmptyMap
  /\ resp = Idle
  /\ inflight = {}

NextAsync ==
  \/ now < AsyncMaxHalfHours * HalfHour /\ Tick
  \/ \E h \in { << >>, << << "admin_sid", 1 >> >> } : Logout(h)
  \/ \E p \in AsyncPasswords, found \in BOOLEAN : VerifyAwait(p, found)
  \/ \E r \in inflight : VerifyResume(r)
  \/ \E c \in GateCases : ListAwait(c[1], c[2])
  \/ \E r \in inflight, found \in BOOLEAN : ListResume(r, found)
  \/ \E c \in GateCases, p \in AsyncPasswordChanges, found \in BOOLEAN :
        ChangePasswordAwait(c[1], c[2], p[1], p[2], found)
  \/ \E r \in inflight : ChangePasswordResume(r)
  \/ \E r \in inflight, updated \in BOOLEAN : ChangePasswordPersist(r, updated)

SpecAsync == InitAsync /\ [][NextAsync]_vars

\* SpecSubmission: the submission routes and the access notification, with
\* one admin session, over every form input and datastore outcome.
InitSubmission ==
  /\ now = 0
  /\ readyState = 1
  /\ SESSIONS = EmptyMap
  /\ sidsDrawn = 0
  /\ envPassword = PwPanel
  /\ Admin = {}
  /\ Submission = {}
  /\ idsDrawn = 0
  /\ lastUse = EmptyMap
  /\ resp = Idle
  /\ inflight = {}

NextSubmission ==
  \/ now < SubmissionMaxHalfHours * HalfHour /\ Tick
  \/ Connect
  \/ Disconnect
  \/ \E f \in FormInputs, saved \in BOOLEAN : Contact(f[1], f[2], f[3], f[4], saved)
  \/ \E c \in GateCases, found \in BOOLEAN : ListSubmissions(c[1], c[2], found)
  \/ \E c \in SubmissionCases, id \in 0 .. (SubmissionMaxSubs + 1), done \in BOOLEAN :
        DeleteSubmission(c[1], c[2], id, done)
  \/ sidsDrawn < 1 /\ Verify(PwPanel, TRUE)
  \/ \E sent \in BOOLEAN : AdminAccess(sent)

SpecSubmission == InitSubmission /\ [][NextSubmission]_vars

(***************************************************************************)
(* Properties                                                              *)
(***************************************************************************)
Gated == { "list", "delete", "change-password" }

\* the step serves one request of the given operation
Served(op) == resp'.op = op /\ now' = now /\ readyState' = readyState

KeyGood(key) == key # "" /\ key = ADMIN_KEY
Denied(r) == r.status = 401 /\ r.error = "unauthorized"

\* the session is in the store and has not passed its expiry
Live(t) == t \in DOMAIN SESSIONS /\ now <= SESSIONS[t].expires
LiveNext(t) == t \in DOMAIN SESSIONS' /\ now' <= SESSIONS'[t].expires

OthersKept(t) ==
  /\ DOMAIN SESSIONS' \subseteq DOMAIN SESSIONS
  /\ \A u \in DOMAIN SESSIONS \ { t } : u \in DOMAIN SESSIONS' /\ SESSIONS'[u] = SESSIONS[u]

\* C1: a protected request passes requireAdminAuth exactly when it presents
\* the configured API key or a session id that is in the store and not past
\* its expiry; otherwise the answer is 401 and nothing but the presented
\* session's own entry changes.
C1Theorem ==
  [][ \A op \in Gated :
        Served(op) =>
          LET ok == KeyGood(resp'.key) \/ Live(resp'.sid)
          IN  /\ ~Denied(resp') <=> ok
              /\ ~ok => /\ Submission' = Submission
                        /\ idsDrawn' = idsDrawn
                        /\ envPassword' = envPassword
                        /\ Admin' = Admin
                        /\ sidsDrawn' = sidsDrawn
                        /\ OthersKept(resp'.sid) ]_vars

C1Witness ==
  /\ resp.op \in Gated
  /\ Denied(resp)
  /\ resp.key = "wrong-key"
  /\ resp.sid \in DOMAIN lastUse
  /\ resp.sid \notin DOMAIN SESSIONS
  /\ DOMAIN SESSIONS # {}
  /\ Submission # {}

\* C2: a successful change-password leaves the session store empty, so no
\* session that was in it is live afterwards, and the next session-presenting
\* request with any id issued so far is answered 401.
C2Theorem ==
  [][ /\ (Served("change-password") /\ resp'.status = 200) =>
            /\ SESSIONS' = EmptyMap
            /\ \A t \in DOMAIN SESSIONS : ~LiveNext(t)
      /\ \A op \in Gated :
            ( /\ Served(op)
              /\ resp.op = "change-password"
              /\ resp.status = 200
              /\ ~KeyGood(resp'.key)
              /\ resp'.sid \in 1 .. sidsDrawn ) => Denied(resp') ]_vars

C2Witness ==
  /\ resp.op = "change-password"
  /\ resp.status = 200
  /\ resp.key = ""
  /\ resp.sid \in DOMAIN lastUse
  /\ lastUse[resp.sid] = now
  /\ Cardinality(DOMAIN lastUse) = 2
  /\ SESSIONS = EmptyMap

\* C3 as stated: the session check passes exactly when the id is in the store
\* and the clock is strictly before its expiry, and a check at or after the
\* expiry evicts the entry.
C3Stated ==
  [][ \A op \in Gated :
        (Served(op) /\ ~KeyGood(resp'.key)) =>
          /\ ~Denied(resp') <=>
               (resp'.sid \in DOMAIN SESSIONS /\ now < SESSIONS[resp'.sid].expires)
          /\ (resp'.sid \in DOMAIN SESSIONS /\ now >= SESSIONS[resp'.sid].expires)
               => resp'.sid \notin DOMAIN SESSIONS' ]_vars

\* C3 amended: the session check passes exactly when the id is in the store
\* and the clock is at or before its expiry; a check after the expiry evicts
\* the entry, and a check exactly at the expiry passes and keeps it.
C3Theorem ==
  [][ \A op \in Gated :
        (Served(op) /\ ~KeyGood(resp'.key)) =>
          /\ ~Denied(resp') <=>
               (resp'.sid \in DOMAIN SESSIONS /\ now <= SESSIONS[resp'.sid].expires)
          /\ (resp'.sid \in DOMAIN SESSIONS /\ now > SESSIONS[resp'.sid].expires)
               => resp'.sid \notin DOMAIN SESSIONS'
          /\ (resp'.sid \in DOMAIN SESSIONS /\ now = SESSIONS[resp'.sid].expires
              /\ resp'.op # "change-password")
               => resp'.sid \in DOMAIN SESSIONS' ]_vars

\* a session-authenticated request let through one lifetime after the
\* session's last use, that is exactly at its expiry
C3Witness ==
  /\ resp.op = "list"
  /\ resp.key = ""
  /\ ~Denied(resp)
  /\ resp.sid \in DOMAIN SESSIONS
  /\ SESSIONS[resp.sid].createdAt = 0
  /\ now = SESSION_TTL_MS
  /\ SESSIONS[resp.sid].expires = now + SESSION_TTL_MS
  /\ sidsDrawn = 1

\* C4: a session is live right after createSession made it, and a session
\* check of an id that was neither created nor let through requireAdminAuth
\* for more than one lifetime is denied and removes the entry.
C4Theorem ==
  [][ /\ (Served("verify") /\ resp'.status = 200) =>
            /\ resp'.sid \notin DOMAIN SESSIONS
            /\ LiveNext(resp'.sid)
      /\ \A op \in Gated :
            (Served(op) /\ ~KeyGood(resp'.key) /\ resp'.sid \in DOMAIN SESSIONS) =>
               /\ now = SESSIONS[resp'.sid].createdAt => ~Denied(resp')
               /\ now > lastUse[resp'.sid] + SESSION_TTL_MS =>
                    (Denied(resp') /\ resp'.sid \notin DOMAIN SESSIONS') ]_vars

C4Witness ==
  /\ resp.op \in Gated
  /\ Denied(resp)
  /\ resp.key = ""
  /\ resp.sid \in DOMAIN lastUse
  /\ resp.sid \notin DOMAIN SESSIONS
  /\ now > lastUse[resp.sid] + SESSION_TTL_MS

\* C5: a request let through on its session at time T sets that session's
\* expiry to T + one lifetime, and a session check made less than one
\* lifetime after the session's last use passes.
C5Theorem ==
  [][ \A op \in Gated :
        (Served(op) /\ ~KeyGood(resp'.key)) =>
          /\ (~Denied(resp') /\ ~(op = "change-password" /\ resp'.status = 200)) =>
               /\ resp'.sid \in DOMAIN SESSIONS'
               /\ SESSIONS'[resp'.sid].expires = now + SESSION_TTL_MS
               /\ SESSIONS'[resp'.sid].createdAt = SESSIONS[resp'.sid].createdAt
          /\ (resp'.sid \in DOMAIN SESSIONS /\ now < lastUse[resp'.sid] + SESSION_TTL_MS)
               => ~Denied(resp') ]_vars

\* a session is let through more than one lifetime after its creation
C5Witness ==
  /\ resp.op \in Gated
  /\ resp.key = ""
  /\ ~Denied(resp)
  /\ resp.sid \in DOMAIN SESSIONS
  /\ now > SESSIONS[resp.sid].createdAt + SESSION_TTL_MS
  /\ lastUse[resp.sid] = now

\* C6: logout answers 200 whatever the cookie; afterwards the presented id
\* is not in the store, a logout of an id that is not in the store leaves the
\* store as it was, and a session-presenting request that follows a logout
\* of the same id is answered 401.
C6Theorem ==
  [][ /\ Served("logout") =>
            /\ resp'.status = 200
            /\ resp'.sid \notin DOMAIN SESSIONS'
            /\ ~LiveNext(resp'.sid)
            /\ OthersKept(resp'.sid)
            /\ resp'.sid \notin DOMAIN SESSIONS => SESSIONS' = SESSIONS
            /\ (resp.op = "logout" /\ resp.sid = resp'.sid) => SESSIONS' = SESSIONS
      /\ \A op \in Gated :
            ( /\ Served(op)
              /\ resp.op = "logout"
              /\ ~KeyGood(resp'.key)
              /\ resp'.sid = resp.sid ) => Denied(resp') ]_vars

\* a session that had not expired was logged out, another one is kept
C6Witness ==
  /\ resp.op = "logout"
  /\ resp.status = 200
  /\ resp.sid \in DOMAIN lastUse
  /\ now <= lastUse[resp.sid] + SESSION_TTL_MS
  /\ resp.sid \notin DOMAIN SESSIONS
  /\ DOMAIN SESSIONS # {}

\* C7 as stated: an issued id that is out of the store or has reached its
\* expiry is not live after any step.
C7Stated ==
  [][ \A t \in 1 .. sidsDrawn :
        (t \notin DOMAIN SESSIONS \/ now >= SESSIONS[t].expires) => ~LiveNext(t) ]_vars

\* C7 amended: an issued id that is out of the store or has passed its expiry
\* is not live after any step.
C7Theorem ==
  [][ \A t \in 1 .. sidsDrawn :
        (t \notin DOMAIN SESSIONS \/ now > SESSIONS[t].expires) => ~LiveNext(t) ]_vars

\* a login made after an earlier session was revoked within its lifetime
C7Witness ==
  /\ resp.op = "verify"
  /\ resp.status = 200
  /\ resp.sid = 2
  /\ 1 \notin DOMAIN SESSIONS
  /\ now <= lastUse[1] + SESSION_TTL_MS

\* the password getAdminPassword may answer in the current state: the
\* persisted record when the datastore is connected and holds one, else the
\* fallback
CurrentPasswords ==
  IF readyState = 1 /\ AdminFindOne # << >> THEN { AdminFindOne, Fallback } ELSE { Fallback }

\* C8: verify creates a session exactly when the presented password is
\* non-empty and equal to the current admin password; on a match exactly one
\* new id enters the store and is returned, otherwise the answer is 401 and
\* the store is unchanged.
C8Theorem ==
  [][ Served("verify") =>
        /\ resp'.expected \in CurrentPasswords
        /\ resp'.status \in { 200, 401 }
        /\ resp'.status = 200 <=>
             (resp'.password # << >> /\ resp'.password = resp'.expected)
        /\ resp'.status = 200 =>
             /\ resp'.sid \notin DOMAIN SESSIONS
             /\ DOMAIN SESSIONS' = DOMAIN SESSIONS \cup { resp'.sid }
             /\ \A t \in DOMAIN SESSIONS : SESSIONS'[t] = SESSIONS[t]
             /\ LiveNext(resp'.sid)
        /\ resp'.status = 401 => SESSIONS' = SESSIONS ]_vars

\* a login with the persisted password adds a second session to the store
C8Witness ==
  /\ resp.op = "verify"
  /\ resp.status = 200
  /\ Cardinality(DOMAIN SESSIONS) = 2
  /\ Admin # {}
  /\ resp.password = AdminFindOne
  /\ resp.password # Fallback

\* C9 as stated: an authorized change-password with a wrong currentPassword
\* answers 401, with a short newPassword 400, and a failure leaves the
\* password and the session store unchanged.
C9Stated ==
  [][ (Served("change-password") /\ ~Denied(resp')) =>
        /\ resp'.password # resp'.expected => resp'.status = 401
        /\ (resp'.password = resp'.expected
              /\ Len(resp'.newPassword) < MinPasswordLength) => resp'.status = 400
        /\ resp'.status # 200 =>
             /\ envPassword' = envPassword
             /\ Admin' = Admin
             /\ SESSIONS' = SESSIONS ]_vars

\* C9 amended: an authorized change-password with an empty field answers
\* 400; with both fields given, a wrong currentPassword answers 401 and a
\* right one with a short newPassword 400; a failure leaves the password
\* unchanged, removes no session and changes at most the expiry of the
\* caller's own session, which requireAdminAuth renews.
C9Theorem ==
  [][ (Served("change-password") /\ ~Denied(resp')) =>
        /\ (resp'.password = << >> \/ resp'.newPassword = << >>) => resp'.status = 400
        /\ (resp'.password # << >> /\ resp'.newPassword # << >>
              /\ resp'.password # resp'.expected) => resp'.status = 401
        /\ (resp'.password = resp'.expected
              /\ Len(resp'.newPassword) < MinPasswordLength) => resp'.status = 400
        /\ resp'.status # 200 =>
             /\ envPassword' = envPassword
             /\ Admin' = Admin
             /\ DOMAIN SESSIONS' = DOMAIN SESSIONS
             /\ \A t \in DOMAIN SESSIONS :
                  /\ Live(t) => LiveNext(t)
                  /\ SESSIONS'[t].createdAt = SESSIONS[t].createdAt
                  /\ (t # resp'.sid \/ KeyGood(resp'.key)) => SESSIONS'[t] = SESSIONS[t]
             /\ (~KeyGood(resp'.key)) =>
                  SESSIONS'[resp'.sid].expires = now + SESSION_TTL_MS ]_vars

\* a session-authenticated change with a wrong current password is refused
\* and the caller's session has been renewed
C9Witness ==
  /\ resp.op = "change-password"
  /\ resp.status = 401
  /\ resp.error = "Current password is incorrect"
  /\ resp.key = ""
  /\ resp.sid \in DOMAIN SESSIONS
  /\ now > SESSIONS[resp.sid].createdAt
  /\ SESSIONS[resp.sid].expires = now + SESSION_TTL_MS

\* C10 as stated: a change-password whose record was not persisted (the
\* datastore is not connected or the upsert failed) does not answer success
\* and leaves the fallback password as it was.
C10Stated ==
  [][ (Served("change-password") /\ ~resp'.persisted) =>
        /\ resp'.status # 200
        /\ envPassword' = envPassword ]_vars


\* C11 as stated: once change-password has answered success with new
\* password P, the current-password lookup returns P, whatever connectivity
\* changes follow, until another request is served.
C11Stated ==
  (resp.op = "change-password" /\ resp.status = 200) =>
     \A found \in BOOLEAN : getAdminPassword(found) = resp.newPassword

\* the record (if any) of the Admin collection, read from the collection itself
AdminRecords == { d \in Admin : d.key = "admin_settings" /\ d.password # << >> }

\* C12: getAdminPassword answers the persisted record's password when the
\* datastore is connected, the lookup answers and a record exists, and the
\* configured fallback otherwise; verify and change-password never answer
\* 500, and what they compare against is the record or the fallback.
C12Theorem ==
  [][ /\ \A found \in BOOLEAN :
           getAdminPassword(found) =
             IF readyState = 1 /\ found /\ AdminRecords # {}
             THEN (CHOOSE d \in AdminRecords : TRUE).password
             ELSE IF envPassword # << >> THEN envPassword ELSE DefaultPassword
      /\ (Served("verify") \/ (Served("change-password") /\ ~Denied(resp'))) =>
           /\ resp'.status \in { 200, 400, 401 }
           /\ resp'.expected # << >>
           /\ resp'.expected \in CurrentPasswords
           /\ (readyState # 1 \/ AdminRecords = {}) => resp'.expected = Fallback ]_vars

\* a login served while the datastore is not connected is compared with the
\* fallback although a record with another password exists
C12Witness ==
  /\ resp.op = "verify"
  /\ resp.status = 200
  /\ readyState = 0
  /\ AdminRecords # {}
  /\ resp.expected = Fallback
  /\ resp.expected # AdminFindOne

\* C15 as stated: the Admin collection holds at most one record, none before
\* the first successful change, and after a change-password that answered
\* success the record holds that request's newPassword.
C15Stated ==
  /\ Cardinality(Admin) <= 1
  /\ (resp.op = "change-password" /\ resp.status = 200) =>
        Admin = { [ key |-> "admin_settings", password |-> resp.newPassword ] }


\* C20: a logout, a denied session check (with the eviction of the expired
\* entry it finds) and a session refresh change no entry but that of the
\* presented id; a login adds one entry and changes no other.
C20Theorem ==
  [][ /\ Served("logout") =>
            /\ OthersKept(resp'.sid)
            /\ resp'.sid \notin DOMAIN SESSIONS'
      /\ \A op \in Gated :
            ( /\ Served(op)
              /\ ~KeyGood(resp'.key)
              /\ ~(op = "change-password" /\ resp'.status = 200) ) =>
               /\ OthersKept(resp'.sid)
               /\ (Denied(resp') /\ resp'.sid \in DOMAIN SESSIONS')
                     => SESSIONS'[resp'.sid] = SESSIONS[resp'.sid]
               /\ (~Denied(resp')) =>
                     /\ DOMAIN SESSIONS' = DOMAIN SESSIONS
                     /\ SESSIONS'[resp'.sid].createdAt = SESSIONS[resp'.sid].createdAt
      /\ (Served("verify") /\ resp'.status = 200) =>
            /\ DOMAIN SESSIONS' = DOMAIN SESSIONS \cup { resp'.sid }
            /\ \A u \in DOMAIN SESSIONS : SESSIONS'[u] = SESSIONS[u] /\ u # resp'.sid ]_vars

\* a denied check has evicted an expired session while another one is live
C20Witness ==
  /\ resp.op \in Gated
  /\ Denied(resp)
  /\ resp.sid \in DOMAIN lastUse
  /\ resp.sid \notin DOMAIN SESSIONS
  /\ now > lastUse[resp.sid] + SESSION_TTL_MS
  /\ \E u \in DOMAIN SESSIONS : Live(u) /\ SESSIONS[u].createdAt < now


\* C16 as stated: a contact request whose name or email is empty after
\* trimming answers 400 and persists nothing; any other request that is
\* saved answers 201 with a new id and stores the trimmed fields; every
\* stored submission has a non-empty name and email.
C16Stated ==
  [][ Served("contact") =>
        LET blank == Trim(resp'.name) = << >> \/ Trim(resp'.email) = << >>
        IN  /\ blank => (resp'.status = 400 /\ Submission' = Submission)
            /\ ~blank => resp'.status \in { 201, 500 }
            /\ resp'.status = 201 =>
                 \E d \in Submission' \ Submission :
                    /\ Submission' = Submission \cup { d }
                    /\ d.id = resp'.id
                    /\ \A e \in Submission : e.id # d.id
                    /\ d.name = Trim(resp'.name)
                    /\ d.email = Trim(resp'.email)
                    /\ d.company = Trim(d.company)
                    /\ d.message = Trim(d.message)
            /\ resp'.status # 201 => Submission' = Submission
            /\ \A d \in Submission' : d.name # << >> /\ d.email # << >> ]_vars

\* C17 as stated: with the datastore answering, an authorized delete of an
\* id that identifies a stored submission answers 200 and removes exactly
\* that submission; of any other id it answers 404 and removes nothing.
C17Stated ==
  [][ (Served("delete") /\ ~Denied(resp') /\ resp'.done) =>
        IF \E d \in Submission : IsObjectId(resp'.id) /\ d.id = resp'.id
        THEN /\ resp'.status = 200
             /\ Submission' = { d \in Submission : d.id # resp'.id }
             /\ Cardinality(Submission') = Cardinality(Submission) - 1
        ELSE /\ resp'.status = 404
             /\ Submission' = Submission ]_vars

\* C18: an authorized list request changes no submission; it answers 503
\* exactly when the datastore is not connected, and a 200 answer carries
\* every stored submission once, newest first.
C18Theorem ==
  [][ (Served("list") /\ ~Denied(resp')) =>
        /\ Submission' = Submission
        /\ idsDrawn' = idsDrawn
        /\ resp'.status = 503 <=> readyState # 1
        /\ resp'.status \in { 200, 500, 503 }
        /\ resp'.status = 200 =>
             /\ Len(resp'.rows) = Cardinality(Submission)
             /\ { resp'.rows[i] : i \in 1 .. Len(resp'.rows) } = Submission
             /\ \A i \in 1 .. (Len(resp'.rows) - 1) :
                  resp'.rows[i].createdAt >= resp'.rows[i + 1].createdAt ]_vars

\* a list of two submissions created at different times
C18Witness ==
  /\ resp.op = "list"
  /\ resp.status = 200
  /\ Len(resp.rows) = 2
  /\ resp.rows[1].createdAt > resp.rows[2].createdAt
  /\ resp.rows[1].id > resp.rows[2].id

\* C19: the access notification changes nothing but its own response, which
\* is 200 or 500 whatever the state; after a notification, of either
\* outcome, the auth gate and the login decide as they always do.
C19Theorem ==
  [][ /\ Served("admin-access") =>
            /\ UNCHANGED << SESSIONS, sidsDrawn, envPassword, Admin, Submission,
                            idsDrawn, lastUse >>
            /\ resp' \in { Response("admin-access", 200, "", "", 0, PwEmpty, PwEmpty,
                                    PwEmpty, FALSE),
                           Response("admin-access", 500, "send failed", "", 0, PwEmpty,
                                    PwEmpty, PwEmpty, FALSE) }
      /\ resp.op = "admin-access" =>
            /\ \A op \in Gated :
                  Served(op) => (~Denied(resp') <=> (KeyGood(resp'.key) \/ Live(resp'.sid)))
            /\ Served("verify") =>
                  (resp'.status = 200 <=> resp'.password = getAdminPassword(TRUE))
            /\ Served("contact") =>
                  (resp'.status = 400 <=> (resp'.name = << >> \/ resp'.email = << >>)) ]_vars

\* a failed notification with a live session and a stored submission
C19Witness ==
  /\ resp.op = "admin-access"
  /\ resp.status = 500
  /\ \E t \in DOMAIN SESSIONS : Live(t)
  /\ Submission # {}


C14Theorem ==
  [][ /\ \A t \in 1 .. sidsDrawn : t \notin DOMAIN SESSIONS => t \notin DOMAIN SESSIONS'
      /\ Served("logout") => ~LiveNext(resp'.sid)
      /\ (Served("change-password") /\ resp'.status = 200) => SESSIONS' = EmptyMap
      /\ \A r \in inflight \ inflight' :
            (r.op = "list" \/ (r.op = "change-password" /\ resp'.status # 200))
               => SESSIONS' = SESSIONS ]_vars

\* a list request passed requireAdminAuth on a session, the session was
\* revoked while the request was suspended, and the request was then answered
C14Witness ==
  /\ resp.op = "list"
  /\ resp.status = 200
  /\ resp.key = ""
  /\ resp.sid \in DOMAIN lastUse
  /\ resp.sid \notin DOMAIN SESSIONS
  /\ now <= lastUse[resp.sid] + SESSION_TTL_MS


\* C21: a gated request that presents the configured API key is let through
\* and requireAdminAuth leaves the session store as it was, whatever cookie
\* comes with the key: the cookie's session is neither refreshed nor evicted.
C21Theorem ==
  [][ \A op \in Gated :
        (Served(op) /\ KeyGood(resp'.key)) =>
          /\ ~Denied(resp')
          /\ lastUse' = lastUse
          /\ ~(op = "change-password" /\ resp'.status = 200) => SESSIONS' = SESSIONS ]_vars

\* a request with the key and the cookie of an expired session was served
\* and the expired entry is still in the store
C21Witness ==
  /\ resp.op \in Gated
  /\ KeyGood(resp.key)
  /\ ~Denied(resp)
  /\ resp.sid \in DOMAIN SESSIONS
  /\ now > SESSIONS[resp.sid].expires

\* C22: every entry of the session store has
\* createdAt + TTL <= expires <= now + TTL, and no step changes the createdAt
\* of an entry or lowers its expires.
C22Theorem ==
  [][ /\ \A t \in DOMAIN SESSIONS :
           /\ SESSIONS[t].createdAt + SESSION_TTL_MS <= SESSIONS[t].expires
           /\ SESSIONS[t].expires <= now + SESSION_TTL_MS
      /\ \A t \in DOMAIN SESSIONS' :
           /\ SESSIONS'[t].createdAt + SESSION_TTL_MS <= SESSIONS'[t].expires
           /\ SESSIONS'[t].expires <= now' + SESSION_TTL_MS
      /\ now' >= now
      /\ \A t \in DOMAIN SESSIONS \cap DOMAIN SESSIONS' :
           /\ SESSIONS'[t].createdAt = SESSIONS[t].createdAt
           /\ SESSIONS'[t].expires >= SESSIONS[t].expires ]_vars

\* a session that was refreshed some time ago: its expiry lies strictly
\* between the two bounds
C22Witness ==
  \E t \in DOMAIN SESSIONS :
     /\ SESSIONS[t].createdAt + SESSION_TTL_MS < SESSIONS[t].expires
     /\ SESSIONS[t].expires < now + SESSION_TTL_MS
     /\ now <= SESSIONS[t].expires

====
